---- MODULE Spec2Model ----
(***************************************************************************)
(* DashVolcano 2.0, pages/page_5.py: the TAS-diagram / chronogram page.    *)
(*                                                                         *)
(* The model follows one run of the callback update_charts_rock_vei: the   *)
(* name resolution of the chronogram, then update_joint_chemchart (name    *)
(* resolution, date matching, the join loop over the matched date pairs),  *)
(* and, separately, the period filter and calendar clamping of add_chems.  *)
(*                                                                         *)
(* Data frames are sequences of records (row order is table order).  A     *)
(* volcano name and a date selector are sequences of one-character         *)
(* strings, so that str.title(), str.split('-') and int() are computed.    *)
(* NaN is one value outside every data domain; every comparison with it    *)
(* is false, as in numpy.                                                  *)
(***************************************************************************)
EXTENDS Integers, Sequences, FiniteSets, TLC

VARIABLES
    volcano_name,       \* input: GEOROC name chosen in the drop down
    date,               \* input: date selector, "all" or "<year>-..."
    dict_Georoc_sl,     \* alias table: long GEOROC name -> short name
    dict_Georoc_GVP,    \* alias table: GEOROC name -> GVP name
    df,                 \* GVP eruption table
    thisdf,             \* GEOROC samples of the chosen volcano (dfchem)
    chart_n,            \* n of update_charts_rock_vei (chronogram name)
    n,                  \* n of update_joint_chemchart
    dfmatchv,           \* GVP rows of volcano n, End Year filled
    this_date_gvp,      \* answer of match_GVPdates for one date
    all_dates_gvp,      \* list of matched <<year, <<start, end>>>>
    k,                  \* position of the for loop in all_dates_gvp
    dse,                \* loop variable of the last iteration
    dfmatch,            \* dfmatch of the last iteration
    gm,                 \* gm of the last iteration
    rowgvp,             \* rowgvp of the last iteration
    rowsgeoroc,         \* rowsgeoroc of the last iteration
    dfGvpGeo,           \* joined rows appended so far
    pc,                 \* position in the callback
    a_df,               \* add_chems: thisdf argument
    a_period,           \* add_chems: thisperiod argument
    a_out               \* add_chems: filtered and clamped frame per call

vars == <<volcano_name, date, dict_Georoc_sl, dict_Georoc_GVP, df, thisdf,
          chart_n, n, dfmatchv, this_date_gvp, all_dates_gvp, k, dse, dfmatch,
          gm, rowgvp, rowsgeoroc, dfGvpGeo, pc, a_df, a_period, a_out>>

inputVars == <<volcano_name, date, dict_Georoc_sl, dict_Georoc_GVP, df, thisdf>>
loopVars == <<dse, dfmatch, gm, rowgvp, rowsgeoroc>>
chemVars == <<a_df, a_period, a_out>>
joinVars == <<chart_n, n, dfmatchv, this_date_gvp, all_dates_gvp, k, dse,
              dfmatch, gm, rowgvp, rowsgeoroc, dfGvpGeo, pc>>

----------------------------------------------------------------------------
(* Generic helpers: list comprehensions of the source.                     *)

NaN == -99

IsNaN(x) == x = NaN

\* [f(x) for x in s]
Map(f(_), s) == [i \in 1..Len(s) |-> f(s[i])]

\* x in s, for a list s
InList(x, s) == \E i \in 1..Len(s) : s[i] = x

RECURSIVE Unique(_)
\* Series.unique(): first occurrences, in order (NaN once)
Unique(s) ==
    IF s = <<>> THEN <<>>
    ELSE LET r == Unique(SubSeq(s, 1, Len(s) - 1))
             x == s[Len(s)]
         IN IF InList(x, r) THEN r ELSE Append(r, x)

RECURSIVE Flatten(_)
\* concatenation of a list of lists
Flatten(ss) ==
    IF ss = <<>> THEN <<>> ELSE Head(ss) \o Flatten(Tail(ss))

\* all sequences over S of length at most m
SeqsUpTo(S, m) == UNION {[1..l -> S] : l \in 0..m}

\* all partial functions K -> V with at most m keys
PartialFns(K, V, m) ==
    UNION {[D -> V] : D \in {X \in SUBSET K : Cardinality(X) <= m}}

----------------------------------------------------------------------------
(* Strings: str.title(), str(int), str.split('-')[0], int(str).            *)

UpperOf(c) ==
    CASE c = "a" -> "A" [] c = "b" -> "B" [] OTHER -> c

LowerOf(c) ==
    CASE c = "A" -> "a" [] c = "B" -> "b" [] OTHER -> c

IsCased(c) == c \in {"a", "b", "A", "B"}

\* str.title(): a cased character is upper-cased when it starts a word
\* (follows an uncased character or nothing), lower-cased otherwise.
StrTitle(s) ==
    [i \in 1..Len(s) |->
        IF i = 1 \/ ~IsCased(s[i - 1]) THEN UpperOf(s[i]) ELSE LowerOf(s[i])]

\* Series.astype(str) on a year column
AsStr(y) == ToString(y)

RECURSIVE SplitHead(_)
\* thisdate.split('-')[0]: the characters before the first '-'
SplitHead(s) ==
    IF s = <<>> \/ Head(s) = "-" THEN <<>>
    ELSE <<Head(s)>> \o SplitHead(Tail(s))

DigitOf(c) ==
    CASE c = "0" -> 0 [] c = "1" -> 1 [] c = "2" -> 2 [] c = "3" -> 3
      [] c = "4" -> 4 [] c = "5" -> 5 [] c = "6" -> 6 [] c = "7" -> 7
      [] c = "8" -> 8 [] c = "9" -> 9

RECURSIVE ParseInt(_)
\* int(<digits>)
ParseInt(s) ==
    IF s = <<>> THEN 0
    ELSE 10 * ParseInt(SubSeq(s, 1, Len(s) - 1)) + DigitOf(s[Len(s)])

AllDates == <<"a", "l", "l">>
NotFound == <<"not found">>
NoName == <<>>

----------------------------------------------------------------------------
(* Name resolution.                                                        *)

\* variant: the fallback title-cases the short form
ChartName_short(vn, sl, gvp) ==
    LET n1 == IF vn \in DOMAIN sl THEN sl[vn] ELSE vn
    IN IF n1 \in DOMAIN gvp THEN gvp[n1] ELSE StrTitle(n1)

\* update_charts_rock_vei, lines 276-284
ChartName(vn, sl, gvp) ==
    LET n1 == IF vn \in DOMAIN sl THEN sl[vn] ELSE vn
    IN IF n1 \in DOMAIN gvp THEN gvp[n1] ELSE StrTitle(vn)

\* variant: the join is attempted for every name
HasGvpMatch_always(vn, sl, gvp) == TRUE

\* update_joint_chemchart, line 321: "we need a GVP match"
HasGvpMatch(vn, sl, gvp) == vn \in DOMAIN gvp \/ vn \in DOMAIN sl

\* update_joint_chemchart, lines 322-330
JointName(vn, sl, gvp) ==
    LET n1 == IF vn \in DOMAIN sl THEN sl[vn] ELSE vn
    IN IF n1 \in DOMAIN gvp THEN gvp[n1] ELSE StrTitle(vn)

----------------------------------------------------------------------------
(* GVP rows and date matching.                                             *)

\* line 333: df[df['Volcano Name'] == n]
RowsOfVolcano(table, name) ==
    SelectSeq(table, LAMBDA r : r.VolcanoName = name)

\* lines 336-339: if NaN for 'End Year', uses 'Start Year'
FillEndYear(table) ==
    Map(LAMBDA r : IF IsNaN(r.EndYear)
                   THEN [r EXCEPT !.EndYear = r.StartYear] ELSE r, table)

\* the <<start, end>> strings of one GVP row
DatePair(r) == <<AsStr(r.StartYear), AsStr(r.EndYear)>>

\* the distinct eruptions (start year, end year) of a volcano, table order
Eruptions(table, name) ==
    Unique(Map(LAMBDA r : <<r.StartYear, r.EndYear>>,
               FillEndYear(RowsOfVolcano(table, name))))

\* match_GVPdates(name, 'forall', n): one (year, [start, end]) per distinct
\* start/end pair of the volcano, in table order.  Which year of the
\* eruption is paired with it is left open: any year from start to end.
MatchForAllResults(table, name) ==
    LET e == Eruptions(table, name)
    IN {l \in [1..Len(e) -> UNION {(e[i][1]..e[i][2]) \X {<<AsStr(e[i][1]), AsStr(e[i][2])>>} :
                                    i \in 1..Len(e)}] :
           \A i \in 1..Len(e) :
               /\ l[i][2] = <<AsStr(e[i][1]), AsStr(e[i][2])>>
               /\ l[i][1] \in e[i][1]..e[i][2]}

\* match_GVPdates(name, thisdate, n): the start/end pair of one eruption of
\* the volcano, or the sentinel when the volcano has no such pair
MatchOneResults(table, name) ==
    {NotFound} \cup
    {DatePair(r) : r \in {FillEndYear(RowsOfVolcano(table, name))[i] :
                          i \in 1..Len(RowsOfVolcano(table, name))}}

\* variant: the answer is used without the 'not found' test
DatesForOne_unchecked(thisdate, answer) ==
    << <<ParseInt(SplitHead(thisdate)), answer>> >>

\* lines 347-350: the list built from the answer for one date
DatesForOne(thisdate, answer) ==
    IF ~(answer[1] = "not found")
    THEN << <<ParseInt(SplitHead(thisdate)), answer>> >>
    ELSE <<>>

----------------------------------------------------------------------------
(* One iteration of the join loop, lines 359-390.                          *)

\* line 362: rows whose start and end year strings equal the pair
StringFilter(table, se) ==
    SelectSeq(table, LAMBDA r : AsStr(r.StartYear) = se[1]
                                 /\ AsStr(r.EndYear) = se[2])

\* line 364: the distinct months of the samples of year gy
GeorocMonths(samples, gy) ==
    Unique(Map(LAMBDA r : r.ERUPTION_MONTH,
               SelectSeq(samples, LAMBDA r : ~IsNaN(r.ERUPTION_YEAR)
                                             /\ r.ERUPTION_YEAR = gy)))

\* line 365
GmClean(months) == SelectSeq(months, LAMBDA x : ~IsNaN(x) /\ x > 0)

\* lines 369-371: the (start month, end month) pairs, without 0 and NaN
Gvpm(table) ==
    SelectSeq(Map(LAMBDA r : <<r.StartMonth, r.EndMonth>>, table),
              LAMBDA x : ~IsNaN(x[1]) /\ x[1] > 0 /\ ~IsNaN(x[2]) /\ x[2] > 0)

\* x[0] <= y <= x[1] of line 373; false when y is NaN
MonthInRange(y, x) == ~IsNaN(y) /\ x[1] <= y /\ y <= x[2]

\* line 373: [[y,x] for x in gvpm for y in gm if x[0] <= y <= x[1]]
FndMonths(gvpm, months) ==
    Flatten(Map(LAMBDA x : Map(LAMBDA y : <<y, x>>,
                               SelectSeq(months, LAMBDA y : MonthInRange(y, x))),
                gvpm))

\* variant: start months tested against the found end months and vice versa
MonthRefilter_swapped(table, fnd_months) ==
    LET sm == Map(LAMBDA x : x[2][1], fnd_months)
        em == Map(LAMBDA x : x[2][2], fnd_months)
    IN SelectSeq(table, LAMBDA r : InList(r.StartMonth, em)
                                    /\ InList(r.EndMonth, sm))

\* line 380: rows whose start month is a found start and end month a found end
MonthRefilter(table, fnd_months) ==
    LET sm == Map(LAMBDA x : x[2][1], fnd_months)
        em == Map(LAMBDA x : x[2][2], fnd_months)
    IN SelectSeq(table, LAMBDA r : InList(r.StartMonth, sm)
                                    /\ InList(r.EndMonth, em))

\* variant: without month match, gm_clean is used for gm
MonthMatch_clean(table, samples, gy, se) ==
    LET gm0 == GeorocMonths(samples, gy)
        fnd_months == FndMonths(Gvpm(table), gm0)
    IN IF se[1] = se[2] /\ Len(GmClean(gm0)) > 0 /\ Len(fnd_months) > 0
       THEN <<MonthRefilter(table, fnd_months),
              Map(LAMBDA x : x[1], fnd_months)>>
       ELSE <<table, GmClean(gm0)>>

\* lines 364-380: <<dfmatch, gm>> after the month matching
MonthMatch(table, samples, gy, se) ==
    LET gm0 == GeorocMonths(samples, gy)
        fnd_months == FndMonths(Gvpm(table), gm0)
    IN IF se[1] = se[2] /\ Len(GmClean(gm0)) > 0 /\ Len(fnd_months) > 0
       THEN <<MonthRefilter(table, fnd_months),
              Map(LAMBDA x : x[1], fnd_months)>>
       ELSE <<table, gm0>>

\* colsGvp of line 314, as values of one row
RowGvp(r) == <<r.VolcanoName, r.StartYear, r.EndYear, r.VEI>>

\* variant: the last row is taken
Representative_last(table) == RowGvp(table[Len(table)])

\* line 384: dfmatch[colsGvp].values[0], "if several rows, takes the first"
Representative(table) == RowGvp(table[1])

\* list(rw) of line 389
RowValues(rw) == <<rw.ERUPTION_YEAR, rw.ERUPTION_MONTH>>

\* lines 387-389: every sample row behind the one GVP row
JoinedRows(gvprow, rows) == Map(LAMBDA rw : gvprow \o RowValues(rw), rows)

\* variant: one selection per entry of gm instead of isin(gm)
RowsGeoroc_perMonth(samples, gy, months) ==
    Flatten(Map(LAMBDA m : SelectSeq(samples,
                               LAMBDA r : ~IsNaN(r.ERUPTION_YEAR)
                                          /\ r.ERUPTION_YEAR = gy
                                          /\ r.ERUPTION_MONTH = m),
                months))

\* line 386: samples of year gy whose month is in gm (isin matches NaN)
RowsGeoroc(samples, gy, months) ==
    SelectSeq(samples, LAMBDA r : ~IsNaN(r.ERUPTION_YEAR)
                                  /\ r.ERUPTION_YEAR = gy
                                  /\ InList(r.ERUPTION_MONTH, months))

----------------------------------------------------------------------------
(* Actions of update_charts_rock_vei / update_joint_chemchart.             *)

\* lines 276-284: the chronogram's volcano name
ChartResolve ==
    /\ pc = "charts"
    /\ chart_n' = ChartName(volcano_name, dict_Georoc_sl, dict_Georoc_GVP)
    /\ pc' = "joint"
    /\ UNCHANGED <<inputVars, n, dfmatchv, this_date_gvp, all_dates_gvp, k, loopVars,
                   dfGvpGeo, chemVars>>

\* lines 321-339: a GVP match exists; resolve and load the volcano's rows
JointResolve ==
    /\ pc = "joint"
    /\ HasGvpMatch(volcano_name, dict_Georoc_sl, dict_Georoc_GVP)
    /\ n' = JointName(volcano_name, dict_Georoc_sl, dict_Georoc_GVP)
    /\ dfmatchv' = FillEndYear(RowsOfVolcano(df, n'))
    /\ pc' = "dates"
    /\ UNCHANGED <<inputVars, chart_n, this_date_gvp, all_dates_gvp, k, loopVars, dfGvpGeo,
                   chemVars>>

\* lines 352-353: no GVP match
JointNoMatch ==
    /\ pc = "joint"
    /\ ~HasGvpMatch(volcano_name, dict_Georoc_sl, dict_Georoc_GVP)
    /\ all_dates_gvp' = <<>>
    /\ pc' = "loop"
    /\ UNCHANGED <<inputVars, chart_n, n, dfmatchv, this_date_gvp, k, loopVars,
                   dfGvpGeo, chemVars>>

\* lines 342-343
MatchAllDates ==
    /\ pc = "dates"
    /\ date = AllDates
    /\ all_dates_gvp' \in MatchForAllResults(df, n)
    /\ pc' = "loop"
    /\ UNCHANGED <<inputVars, chart_n, n, dfmatchv, this_date_gvp, k, loopVars,
                   dfGvpGeo, chemVars>>

\* lines 344-350
MatchOneDate ==
    /\ pc = "dates"
    /\ date # AllDates
    /\ this_date_gvp' \in MatchOneResults(df, n)
    /\ all_dates_gvp' = DatesForOne(date, this_date_gvp')
    /\ pc' = "loop"
    /\ UNCHANGED <<inputVars, chart_n, n, dfmatchv, k, loopVars, dfGvpGeo,
                   chemVars>>

\* lines 358-390: one iteration of "for dse in all_dates_gvp"
JoinStep ==
    /\ pc = "loop"
    /\ k <= Len(all_dates_gvp)
    /\ LET d == all_dates_gvp[k]
           gy == d[1]
           se == d[2]
           mm == MonthMatch(StringFilter(dfmatchv, se), thisdf, gy, se)
       IN /\ dse' = d
          /\ dfmatch' = mm[1]
          /\ gm' = mm[2]
          /\ IF mm[1] = <<>>
             THEN \* values[0] of an empty frame: IndexError
                  /\ pc' = "error"
                  /\ UNCHANGED <<rowgvp, rowsgeoroc, dfGvpGeo, k>>
             ELSE /\ rowgvp' = Representative(mm[1])
                  /\ rowsgeoroc' = RowsGeoroc(thisdf, gy, mm[2])
                  /\ dfGvpGeo' = dfGvpGeo \o JoinedRows(rowgvp', rowsgeoroc')
                  /\ k' = k + 1
                  /\ pc' = "loop"
    /\ UNCHANGED <<inputVars, chart_n, n, dfmatchv, this_date_gvp, all_dates_gvp,
                   chemVars>>

\* lines 392-408: dff = dfGvpGeo is returned
JoinEnd ==
    /\ pc = "loop"
    /\ k > Len(all_dates_gvp)
    /\ pc' = "done"
    /\ UNCHANGED <<inputVars, chart_n, n, dfmatchv, this_date_gvp, all_dates_gvp,
                   k, loopVars, dfGvpGeo, chemVars>>

----------------------------------------------------------------------------
(* add_chems, lines 423-435: period filter and calendar clamping.          *)

Periods == {"BC", "before 1679", "1679 and after"}

\* np.where(cond, 1, x), with cond false on NaN
ClampMonth(m) ==
    LET m1 == IF ~IsNaN(m) /\ m > 12 THEN 1 ELSE m         \* line 426
    IN IF ~IsNaN(m1) /\ m1 < 1 THEN 1 ELSE m1              \* line 427

ClampDay(d) ==
    LET d1 == IF ~IsNaN(d) /\ d > 31 THEN 1 ELSE d         \* line 429
    IN IF d1 = 0 THEN 1 ELSE d1                            \* line 430

\* lines 424-430
Chems1679(table) ==
    Map(LAMBDA r : [year |-> r.ERUPTION_YEAR,
                    month |-> ClampMonth(r.ERUPTION_MONTH),
                    day |-> ClampDay(r.ERUPTION_DAY)],
        SelectSeq(table, LAMBDA r : ~IsNaN(r.ERUPTION_YEAR)
                                    /\ r.ERUPTION_YEAR >= 1679))

\* line 433
ChemsBefore1679(table) ==
    SelectSeq(table, LAMBDA r : ~IsNaN(r.ERUPTION_YEAR)
                                /\ r.ERUPTION_YEAR < 1679
                                /\ r.ERUPTION_YEAR > 0)

\* line 435
ChemsBC(table) ==
    SelectSeq(table, LAMBDA r : ~IsNaN(r.ERUPTION_YEAR)
                                /\ r.ERUPTION_YEAR < 0)

\* the frame add_chems goes on with, for period choice p
AddChemsFrame(p, table) ==
    IF p = "1679 and after" THEN Chems1679(table)
    ELSE IF p = "before 1679" THEN ChemsBefore1679(table)
    ELSE ChemsBC(table)

\* a_out with the result for period p recorded
Recorded(out, p, frame) ==
    [q \in DOMAIN out \cup {p} |-> IF q = p THEN frame ELSE out[q]]

AddChems1679 ==
    /\ a_period' = "1679 and after"
    /\ a_out' = Recorded(a_out, a_period', AddChemsFrame(a_period', a_df))
    /\ UNCHANGED <<inputVars, joinVars, a_df>>

AddChemsBefore1679 ==
    /\ a_period' = "before 1679"
    /\ a_out' = Recorded(a_out, a_period', AddChemsFrame(a_period', a_df))
    /\ UNCHANGED <<inputVars, joinVars, a_df>>

AddChemsBC ==
    /\ a_period' = "BC"
    /\ a_out' = Recorded(a_out, a_period', AddChemsFrame(a_period', a_df))
    /\ UNCHANGED <<inputVars, joinVars, a_df>>

----------------------------------------------------------------------------
(* Bounds and input domains.                                               *)

MaxAlias == 1
MaxEvents == 2
MaxSamples == 2
MaxRangeEvents == 3
MaxChemRows == 1

\* names: a GEOROC name, its short form, GVP names
nmAB == <<"A", "B">>
nmBA == <<"B", "A">>
nmAb == <<"A", "b">>
nmBb == <<"B", "b">>
nm_a_b == <<"a", " ", "b">>

\* date selectors
Date11 == <<"1", "1", "-", "2">>
Date12 == <<"1", "2", "-", "0", "-", "0">>

EventRows(names, years, months, veis) ==
    {[VolcanoName |-> nm, StartYear |-> y[1], EndYear |-> y[2],
      StartMonth |-> m[1], EndMonth |-> m[2], VEI |-> v] :
        nm \in names, y \in years, m \in months, v \in veis}

SampleRows(yms) == {[ERUPTION_YEAR |-> ym[1], ERUPTION_MONTH |-> ym[2]] : ym \in yms}

ChemRows ==
    {[ERUPTION_YEAR |-> y, ERUPTION_MONTH |-> m, ERUPTION_DAY |-> d] :
        y \in {-1, 0, 1678, 1679}, m \in {-1, 0, 1, 12, 13},
        d \in {-1, 0, 1, 31, 32}}

\* the state when the callback starts, inputs drawn from the given sets
InitWith(vns, sls, gvps, dates, tables, sampleTables) ==
    /\ volcano_name \in vns
    /\ dict_Georoc_sl \in sls
    /\ dict_Georoc_GVP \in gvps
    /\ date \in dates
    /\ df \in tables
    /\ thisdf \in sampleTables
    /\ chart_n = NoName
    /\ n = NoName
    /\ dfmatchv = <<>>
    /\ this_date_gvp = <<>>
    /\ all_dates_gvp = <<>>
    /\ k = 1
    /\ dse = <<>>
    /\ dfmatch = <<>>
    /\ gm = <<>>
    /\ rowgvp = <<>>
    /\ rowsgeoroc = <<>>
    /\ dfGvpGeo = <<>>
    /\ pc = "charts"
    /\ a_df = <<>>
    /\ a_period = "none"
    /\ a_out = <<>>

\* names, aliases, dates and years vary; months do not
Init ==
    InitWith({nmAB},
             PartialFns({nmAB}, {nmBA}, MaxAlias),
             PartialFns({nmAB, nmBA}, {nmBb}, MaxAlias),
             {AllDates, Date11, Date12},
             SeqsUpTo(EventRows({nmAb, nmBb}, {<<11, NaN>>, <<12, 12>>},
                                {<<NaN, NaN>>}, {1}), MaxEvents),
             SeqsUpTo(SampleRows({<<11, NaN>>, <<11, 1>>, <<12, NaN>>, <<12, 1>>}),
                      MaxSamples))

\* one volcano; years, months and VEI of its eruptions and samples vary
InitMonth ==
    InitWith({nmAB},
             {<<>>},
             PartialFns({nmAB}, {nmBb}, MaxAlias),
             {AllDates, Date11},
             SeqsUpTo(EventRows({nmBb}, {<<11, NaN>>, <<11, 12>>},
                                {<<1, 2>>, <<3, 3>>, <<0, 2>>}, {1}),
                      MaxEvents),
             SeqsUpTo(SampleRows({<<11, NaN>>, <<11, 0>>, <<11, 2>>, <<11, 4>>,
                                  <<12, 2>>}), MaxSamples))

\* one volcano: several eruptions of one year with different VEI
InitTie ==
    InitWith({nmAB},
             {<<>>},
             PartialFns({nmAB}, {nmBb}, MaxAlias),
             {AllDates, Date11},
             SeqsUpTo(EventRows({nmBb}, {<<11, NaN>>, <<11, 12>>},
                                {<<1, 2>>, <<3, 3>>}, {1, 4}),
                      MaxEvents),
             SeqsUpTo(SampleRows({<<11, NaN>>, <<11, 2>>, <<12, 2>>}),
                      MaxSamples))

\* one volcano, one year: overlapping month ranges
InitRange ==
    InitWith({nmAB},
             {<<>>},
             PartialFns({nmAB}, {nmBb}, MaxAlias),
             {AllDates, Date11},
             SeqsUpTo(EventRows({nmBb}, {<<11, NaN>>},
                                {<<1, 2>>, <<2, 3>>, <<2, 2>>}, {1}),
                      MaxRangeEvents),
             SeqsUpTo(SampleRows({<<11, NaN>>, <<11, 1>>, <<11, 3>>}),
                      MaxSamples))

\* names and alias tables only
InitName ==
    InitWith({nmAB, nmAb, nm_a_b},
             PartialFns({nmAB, nmAb, nm_a_b}, {nmBA, nmAB}, MaxAlias),
             PartialFns({nmAB, nmAb, nm_a_b, nmBA}, {nmBb, nmAb}, MaxAlias),
             {AllDates}, {<<>>}, {<<>>})

InitChems ==
    /\ a_df \in SeqsUpTo(ChemRows, MaxChemRows)
    /\ a_period = "none"
    /\ a_out = <<>>
    /\ volcano_name = nmAB
    /\ dict_Georoc_sl = <<>>
    /\ dict_Georoc_GVP = <<>>
    /\ date = AllDates
    /\ df = <<>>
    /\ thisdf = <<>>
    /\ chart_n = NoName
    /\ n = NoName
    /\ dfmatchv = <<>>
    /\ this_date_gvp = <<>>
    /\ all_dates_gvp = <<>>
    /\ k = 1
    /\ dse = <<>>
    /\ dfmatch = <<>>
    /\ gm = <<>>
    /\ rowgvp = <<>>
    /\ rowsgeoroc = <<>>
    /\ dfGvpGeo = <<>>
    /\ pc = "chems"

Next ==
    \/ ChartResolve
    \/ JointResolve
    \/ JointNoMatch
    \/ MatchAllDates
    \/ MatchOneDate
    \/ JoinStep
    \/ JoinEnd

NextName ==
    \/ ChartResolve
    \/ JointResolve
    \/ JointNoMatch

NextChems ==
    \/ AddChems1679
    \/ AddChemsBefore1679
    \/ AddChemsBC

Spec == Init /\ [][Next]_vars
SpecMonth == InitMonth /\ [][Next]_vars
SpecRange == InitRange /\ [][Next]_vars
SpecTie == InitTie /\ [][Next]_vars
SpecName == InitName /\ [][NextName]_vars
SpecChems == InitChems /\ [][NextChems]_vars

----------------------------------------------------------------------------
(* Properties.                                                             *)

\* the name after the optional short-form replacement
ShortOrRaw ==
    IF volcano_name \in DOMAIN dict_Georoc_sl
    THEN dict_Georoc_sl[volcano_name] ELSE volcano_name

\* resolution ends in the title-case fallback
Fallback == ShortOrRaw \notin DOMAIN dict_Georoc_GVP

\* C1: the resolved name is the GVP entry of the (possibly shortened) name
\* when there is one, and otherwise the title-cased ORIGINAL raw name; the
\* join path, whenever it resolves a name, gets the chronogram's name.
C1_NameResolution ==
    /\ pc # "charts" =>
          /\ ~Fallback => chart_n = dict_Georoc_GVP[ShortOrRaw]
          /\ Fallback => chart_n = StrTitle(volcano_name)
    /\ pc = "dates" => n = chart_n

C1_Witness ==
    /\ pc = "dates"
    /\ volcano_name \in DOMAIN dict_Georoc_sl
    /\ Fallback
    /\ StrTitle(ShortOrRaw) # StrTitle(volcano_name)
    /\ n = StrTitle(volcano_name)
    /\ n # volcano_name

\* the years of the date selectors used, read off their text
SelectorYear ==
    CASE date = Date11 -> 11 [] date = Date12 -> 12

\* some GVP row carries the title-cased raw name
TitleNameHasRows ==
    \E i \in 1..Len(df) : df[i].VolcanoName = StrTitle(volcano_name)

C6_NoDateMatch ==
    (pc \in {"loop", "done", "error"} /\ this_date_gvp # <<>>) =>
        IF this_date_gvp = NotFound
        THEN /\ all_dates_gvp = <<>>
             /\ k = 1
             /\ dse = <<>>
             /\ dfGvpGeo = <<>>
             /\ pc # "error"
        ELSE /\ Len(all_dates_gvp) = 1
             /\ all_dates_gvp[1][1] = SelectorYear
             /\ all_dates_gvp[1][2] = this_date_gvp

C6_Witness ==
    /\ pc = "done"
    /\ date = Date12
    /\ this_date_gvp = NotFound
    /\ dfmatchv # <<>>
    /\ \E j \in 1..Len(thisdf) : thisdf[j].ERUPTION_YEAR = 12
    /\ dfGvpGeo = <<>>

\* the pair processed by the last iteration
LastGy == dse[1]
LastSe == dse[2]
AfterStep == pc \in {"loop", "done"} /\ dse # <<>>

\* the samples of the year of the last pair
YearSamples ==
    SelectSeq(thisdf, LAMBDA r : r.ERUPTION_YEAR = LastGy)

ValidMonth(m) == m # NaN /\ m > 0

\* month ranges, with valid start and end, of the GVP rows of the last pair
PairRanges ==
    {<<dfmatchv[i].StartMonth, dfmatchv[i].EndMonth>> :
        i \in {j \in 1..Len(dfmatchv) :
                 /\ DatePair(dfmatchv[j]) = LastSe
                 /\ ValidMonth(dfmatchv[j].StartMonth)
                 /\ ValidMonth(dfmatchv[j].EndMonth)}}

InSomeRange(m) ==
    m # NaN /\ \E x \in PairRanges : x[1] <= m /\ m <= x[2]

\* month reconciliation applies to the last pair
Reconciled ==
    /\ LastSe[1] = LastSe[2]
    /\ \E i \in 1..Len(YearSamples) : ValidMonth(YearSamples[i].ERUPTION_MONTH)
    /\ \E i \in 1..Len(YearSamples) : InSomeRange(YearSamples[i].ERUPTION_MONTH)

Count(s, Test(_)) == Cardinality({i \in 1..Len(s) : Test(s[i])})

\* the joined rows of matched pair se that carry sample values v
JoinedOf(se, v) ==
    Count(dfGvpGeo, LAMBDA row : /\ <<AsStr(row[2]), AsStr(row[3])>> = se
                                 /\ SubSeq(row, 5, 6) = v)

C8_KeptRangesAreFound ==
    (AfterStep /\ Reconciled) =>
        /\ \A i \in 1..Len(dfmatch) :
              \E j \in 1..Len(YearSamples) :
                  /\ ValidMonth(YearSamples[j].ERUPTION_MONTH)
                  /\ dfmatch[i].StartMonth <= YearSamples[j].ERUPTION_MONTH
                  /\ YearSamples[j].ERUPTION_MONTH <= dfmatch[i].EndMonth
        /\ \E j \in 1..Len(rowsgeoroc) :
              /\ dfmatch[1].StartMonth <= rowsgeoroc[j].ERUPTION_MONTH
              /\ rowsgeoroc[j].ERUPTION_MONTH <= dfmatch[1].EndMonth

\* C9: the joined samples of a pair are, when reconciliation applies, the
\* samples of its year whose month lies in a valid month range of the
\* pair's GVP rows, and in every other case all the samples of its year.
C9_JoinedSamples ==
    AfterStep =>
        rowsgeoroc =
            IF Reconciled
            THEN SelectSeq(YearSamples,
                           LAMBDA r : InSomeRange(r.ERUPTION_MONTH))
            ELSE YearSamples

C9_Witness ==
    /\ pc = "done"
    /\ dse # <<>>
    /\ Reconciled
    /\ rowsgeoroc # <<>>
    /\ Len(rowsgeoroc) < Len(YearSamples)
    /\ \E i \in 1..Len(YearSamples) : YearSamples[i].ERUPTION_MONTH = 4

\* the rows of the volcano as they stand in the GVP table
TableRows == SelectSeq(df, LAMBDA r : r.VolcanoName = n)

\* the GVP fields the first remaining row carries, End Year read from df
Carried(rows, remaining) ==
    LET EndOf(r) == IF r.EndYear = NaN THEN r.StartYear ELSE r.EndYear
        Remains(r) == InList([r EXCEPT !.EndYear = EndOf(r)], remaining)
        j == CHOOSE j \in 1..Len(rows) :
                 /\ Remains(rows[j])
                 /\ \A l \in 1..(j - 1) : ~Remains(rows[l])
    IN <<rows[j].VolcanoName, rows[j].StartYear, EndOf(rows[j]), rows[j].VEI>>

\* C10: the records joined for a pair all carry the fields of the first
\* remaining GVP row in table order, the end year being the start year
\* when it was null in the table, one record per selected sample row.
C10_FirstRowTieBreak ==
    [][(pc = "loop" /\ k' = k + 1) =>
          LET new == SubSeq(dfGvpGeo', Len(dfGvpGeo) + 1, Len(dfGvpGeo'))
          IN /\ SubSeq(dfGvpGeo', 1, Len(dfGvpGeo)) = dfGvpGeo
             /\ Len(new) = Len(rowsgeoroc')
             /\ \A i \in 1..Len(new) :
                   /\ SubSeq(new[i], 1, 4) = Carried(TableRows, dfmatch')
                   /\ SubSeq(new[i], 5, 6) = RowValues(rowsgeoroc'[i])]_vars

C10_Witness ==
    /\ pc = "done"
    /\ Len(dfmatch) = 2
    /\ dfmatch[1].VEI # dfmatch[2].VEI
    /\ Len(rowsgeoroc) = 2
    /\ rowgvp[3] = rowgvp[2]
    /\ \E i \in 1..Len(df) : df[i].VEI = rowgvp[4] /\ df[i].EndYear = NaN
    /\ Len(dfGvpGeo) = 2
    /\ dfGvpGeo[1][4] = dfmatch[1].VEI
    /\ dfGvpGeo[2][4] = dfmatch[1].VEI

\* the year of a row of the frame add_chems keeps for period p
KeptYears(p) ==
    {IF p = "1679 and after" THEN a_out[p][j].year
     ELSE a_out[p][j].ERUPTION_YEAR : j \in 1..Len(a_out[p])}

\* C2 as stated: every sample year is kept under exactly one of the three
\* period choices, year 0 under 'before 1679'.
C2_PeriodPartition ==
    DOMAIN a_out = Periods =>
        \A i \in 1..Len(a_df) :
            /\ Cardinality({p \in Periods :
                              a_df[i].ERUPTION_YEAR \in KeptYears(p)}) = 1
            /\ a_df[i].ERUPTION_YEAR = 0 => 0 \in KeptYears("before 1679")

\* the samples of 1679 and after, in table order
From1679 == SelectSeq(a_df, LAMBDA r : r.ERUPTION_YEAR >= 1679)

\* C3 as stated: under '1679 and after' the month ends in 1..12 and the
\* day in 1..31, unchanged when in range and 1 otherwise.
C3_CalendarClamping ==
    "1679 and after" \in DOMAIN a_out =>
        LET out == a_out["1679 and after"]
        IN /\ Len(out) = Len(From1679)
           /\ \A j \in 1..Len(out) :
                 /\ out[j].month \in 1..12
                 /\ out[j].day \in 1..31
                 /\ out[j].month = IF From1679[j].ERUPTION_MONTH \in 1..12
                                   THEN From1679[j].ERUPTION_MONTH ELSE 1
                 /\ out[j].day = IF From1679[j].ERUPTION_DAY \in 1..31
                                 THEN From1679[j].ERUPTION_DAY ELSE 1

====
